---- MODULE Spec2Model ----
(***************************************************************************)
(* TritonHTTP: the per-connection worker (server.go), the request parser   *)
(* (request.go, kept as src/unnamed/part_000) and the response builder and *)
(* writer (response.go).                                                   *)
(*                                                                         *)
(* A Go string is a sequence of atoms.  An atom is a run of bytes that no  *)
(* operation of the program cuts in two: the separators " ", ":" and "/"   *)
(* are atoms of their own, and so is the path element "..".                *)
(***************************************************************************)
EXTENDS Integers, Sequences, FiniteSets, TLC

\* Bound: the number of request lines one connection delivers.
MaxReq == 2

----------------------------------------------------------------------------
(* strings *)

EmptyStr == <<>>

\* the first position of atom a in s, 0 when s has none
RECURSIVE IndexFrom(_, _, _)
IndexFrom(s, a, i) ==
    IF i > Len(s) THEN 0
    ELSE IF s[i] = a THEN i
    ELSE IndexFrom(s, a, i + 1)

Index(s, a) == IndexFrom(s, a, 1)

\* strings.Contains(s, a)
Contains(s, a) == Index(s, a) # 0

Before(s, i) == SubSeq(s, 1, i - 1)

After(s, i) == SubSeq(s, i + 1, Len(s))

\* strings.Split(s, sep): every piece between separators
RECURSIVE Split(_, _)
Split(s, sep) ==
    IF ~Contains(s, sep) THEN <<s>>
    ELSE <<Before(s, Index(s, sep))>> \o Split(After(s, Index(s, sep)), sep)

\* strings.SplitN(s, sep, n): at most n pieces, the last one unsplit
RECURSIVE SplitN(_, _, _)
SplitN(s, sep, n) ==
    IF n = 1 \/ ~Contains(s, sep) THEN <<s>>
    ELSE <<Before(s, Index(s, sep))>> \o SplitN(After(s, Index(s, sep)), sep, n - 1)

\* strings.TrimLeft(s, a)
RECURSIVE TrimLeft(_, _)
TrimLeft(s, a) ==
    IF s # <<>> /\ s[1] = a THEN TrimLeft(Tail(s), a) ELSE s

\* strings.HasPrefix(s, a) for a one-atom prefix
HasPrefix(s, a) == s # <<>> /\ s[1] = a

\* the pieces joined again with sep between them
RECURSIVE JoinWith(_, _)
JoinWith(pieces, sep) ==
    IF pieces = <<>> THEN <<>>
    ELSE IF Len(pieces) = 1 THEN pieces[1]
    ELSE pieces[1] \o <<sep>> \o JoinWith(Tail(pieces), sep)

\* fmt.Sprint of a non-negative integer: its decimal digits
Digit(d) == CASE d = 0 -> "0" [] d = 1 -> "1" [] d = 2 -> "2" [] d = 3 -> "3"
              [] d = 4 -> "4" [] d = 5 -> "5" [] d = 6 -> "6" [] d = 7 -> "7"
              [] d = 8 -> "8" [] d = 9 -> "9"

RECURSIVE Sprint(_)
Sprint(n) == IF n < 10 THEN <<Digit(n)>> ELSE Sprint(n \div 10) \o <<Digit(n % 10)>>

----------------------------------------------------------------------------
(* path/filepath *)

\* the elements of a path that Clean keeps: not empty, not "."
RECURSIVE KeptElems(_)
KeptElems(pieces) ==
    IF pieces = <<>> THEN <<>>
    ELSE IF pieces[1] = <<>> \/ pieces[1] = <<".">> THEN KeptElems(Tail(pieces))
    ELSE <<pieces[1]>> \o KeptElems(Tail(pieces))

\* Clean's treatment of "..": it removes the element before it; at the root
\* it is dropped, at the start of a relative path it stays
RECURSIVE Resolve(_, _, _)
Resolve(elems, acc, rooted) ==
    IF elems = <<>> THEN acc
    ELSE IF elems[1] = <<"..">> THEN
        IF acc # <<>> /\ acc[Len(acc)] # <<"..">>
            THEN Resolve(Tail(elems), SubSeq(acc, 1, Len(acc) - 1), rooted)
        ELSE IF rooted THEN Resolve(Tail(elems), acc, rooted)
        ELSE Resolve(Tail(elems), Append(acc, elems[1]), rooted)
    ELSE Resolve(Tail(elems), Append(acc, elems[1]), rooted)

Rooted(p) == HasPrefix(p, "/")

\* the elements of the cleaned path
CleanElems(p) == Resolve(KeptElems(Split(p, "/")), <<>>, Rooted(p))

\* filepath.Clean
Clean(p) ==
    IF Rooted(p) THEN <<"/">> \o JoinWith(CleanElems(p), "/")
    ELSE IF CleanElems(p) = <<>> THEN <<".">>
    ELSE JoinWith(CleanElems(p), "/")

\* filepath.Join of two elements: empty elements are ignored, the rest is
\* joined with "/" and cleaned
Join(a, b) ==
    IF a = <<>> /\ b = <<>> THEN <<>>
    ELSE IF a = <<>> THEN Clean(b)
    ELSE IF b = <<>> THEN Clean(a)
    ELSE Clean(a \o <<"/">> \o b)

\* the number of leading elements two element lists share
RECURSIVE CommonLen(_, _)
CommonLen(x, y) ==
    IF x = <<>> \/ y = <<>> \/ x[1] # y[1] THEN 0
    ELSE 1 + CommonLen(Tail(x), Tail(y))

Ups(n) == [i \in 1..n |-> <<"..">>]

\* filepath.Rel(basepath, targpath): [err, rel]
Rel(basepath, targpath) ==
    LET base == Clean(basepath)
        targ == Clean(targpath)
        b    == IF base = <<".">> THEN <<>> ELSE CleanElems(basepath)
        t    == IF targ = <<".">> THEN <<>> ELSE CleanElems(targpath)
        k    == CommonLen(b, t)
    IN  IF targ = base THEN [err |-> FALSE, rel |-> <<".">>]
        ELSE IF Rooted(base) # Rooted(targ) THEN [err |-> TRUE, rel |-> <<>>]
        ELSE IF k < Len(b) /\ b[k + 1] = <<"..">> THEN [err |-> TRUE, rel |-> <<>>]
        ELSE [err |-> FALSE,
              rel |-> JoinWith(Ups(Len(b) - k) \o SubSeq(t, k + 1, Len(t)), "/")]

----------------------------------------------------------------------------
(* configuration and environment *)

Nil == [nil |-> TRUE]

responseProto == <<"HTTP/1.1">>

statusOK == 200

statusBadRequest == 400

statusNotFound == 404

statusText(code) ==
    CASE code = statusOK -> <<"OK">>
      [] code = statusBadRequest -> <<"Bad Request">>
      [] code = statusNotFound -> <<"Not Found">>

\* Server.VirtualHosts: host name -> docRoot
VirtualHosts == (<<"h1">> :> <<"/", "srv">>)

\* a Go map read: the zero value "" for a key the map does not hold
VirtualHostOf(host) ==
    IF host \in DOMAIN VirtualHosts THEN VirtualHosts[host] ELSE EmptyStr

IndexPath == <<"/", "srv", "/", "index.html">>

OutsidePath == <<"/", "etc">>

\* the files of the docRoot that change while the server runs
ServedPaths == {IndexPath}

Data1 == <<"x">>

Data2 == <<"x", "y">>

NotExist == [kind |-> "notexist"]

\* the lookup fails with an error other than "does not exist" (EACCES on a
\* directory of the path, ENOTDIR when an element of it is a regular file)
LookupErr == [kind |-> "err"]

Dir == [kind |-> "dir"]

File(d, r) == [kind |-> "file", data |-> d, readable |-> r]

FileStates ==
    {NotExist, LookupErr, Dir, File(Data1, TRUE), File(Data2, TRUE), File(Data1, FALSE)}

\* what a directory's FileInfo.Size() reports is left to the system
DirSizes == {0, 2}

EntryAt(fsys, path) == IF path \in DOMAIN fsys THEN fsys[path] ELSE NotExist

\* os.Stat(path): [err, fi]; fi is nil whenever err is not
Stat(fsys, path, dirSize) ==
    LET e == EntryAt(fsys, path)
    IN  CASE e.kind = "notexist" -> [err |-> "notexist", fi |-> Nil]
          [] e.kind = "err" -> [err |-> "other", fi |-> Nil]
          [] e.kind = "dir" -> [err |-> "nil", fi |-> [IsDir |-> TRUE, Size |-> dirSize]]
          [] e.kind = "file" ->
                [err |-> "nil", fi |-> [IsDir |-> FALSE, Size |-> Len(e.data)]]

\* os.Open followed by io.Copy from the file: "nofile" when Open fails,
\* "readerr" when the reads fail (a directory), else the bytes
ReadFile(fsys, path) ==
    LET e == EntryAt(fsys, path)
    IN  CASE e.kind \in {"notexist", "err"} -> [r |-> "nofile", data |-> <<>>]
          [] e.kind = "dir" -> [r |-> "readerr", data |-> <<>>]
          [] e.kind = "file" ->
                IF e.readable THEN [r |-> "ok", data |-> e.data]
                ELSE [r |-> "nofile", data |-> <<>>]

\* util.go, FormatTime: the wire form of a time
FormatTime(t) == <<t>>

\* util.go, MIMETypeByExtension
MIMETypeByExtension(ext) ==
    IF ext = <<".html">> THEN <<"text/html">> ELSE <<"application/octet-stream">>

\* filepath.Ext
Ext(path) ==
    IF path # <<>> /\ path[Len(path)] = "index.html" THEN <<".html">> ELSE EmptyStr

\* util.go, CanonicalHeaderKey: every hyphen-separated segment capitalised
CanonicalAtom(a) ==
    CASE a = "host" -> "Host"
      [] a = "connection" -> "Connection"
      [] OTHER -> a

CanonicalHeaderKey(k) == [i \in 1..Len(k) |-> CanonicalAtom(k[i])]

----------------------------------------------------------------------------
(* what a client can send: one line per call of readLine *)

ReqLine(method, url, proto) == method \o <<" ">> \o url \o <<" ">> \o proto

GET == <<"GET">>

HTTP11 == <<"HTTP/1.1">>

URLs ==
    { <<"/">>,                              \* the index document of the docRoot
      <<"/", "a">>,                         \* a file that does not exist
      <<"/", "..", "/", "etc">>,            \* leaves the docRoot
      <<"/", "..", "/", "srv", "/">>,       \* leaves the docRoot and comes back
      <<"/", "..", "a">> }                  \* a name that only begins with ".."

RequestLines ==
    { ReqLine(GET, u, HTTP11) : u \in URLs } \cup
    { ReqLine(GET, EmptyStr, HTTP11),       \* "GET  HTTP/1.1": an empty target
      ReqLine(GET, <<"a">>, HTTP11),        \* a target without the leading "/"
      ReqLine(<<"PUT">>, <<"/">>, HTTP11),
      ReqLine(GET, <<"/">>, <<"HTTP/1.0">>),
      <<"GET", " ", "/">> }                 \* no version field

HeaderLines ==
    { <<"Host", ":", " ", "h1">>,
      <<"host", ":", "h1">>,
      <<"Host", ":", " ", "h2">>,           \* a host the server does not serve
      <<"Host", ":", " ", "h1", ":", "80">>,
      <<"Connection", ":", " ", "close">>,
      <<"Connection", ":", " ", "Close">>,
      <<"Connection", ":", " ", "close", ":", "x">>,
      <<"Accept">> }                        \* no colon

\* the empty line ends a header block
Lines == RequestLines \cup HeaderLines \cup {EmptyStr}

----------------------------------------------------------------------------
(* request.go *)

ZeroRequest ==
    [Method |-> EmptyStr, URL |-> EmptyStr, Proto |-> EmptyStr,
     Headers |-> <<>>, Host |-> EmptyStr, Close |-> FALSE]

parseRequestLine(line) ==
    LET fields == SplitN(line, " ", 3)
    IN  IF Len(fields) # 3 THEN [err |-> TRUE, fields |-> <<>>]
        ELSE [err |-> FALSE, fields |-> fields]

\* readRequest from its first readLine to the header loop, on a line read
\* without error: "ok" with the request begun, "err" with the error returned,
\* "panic" where req.URL[0] indexes an empty string
StartRequest(line) ==
    LET p == parseRequestLine(line)
    IN  IF p.err THEN [r |-> "err", e |-> "could not parse the request line"]
        ELSE IF p.fields[1] # GET THEN [r |-> "err", e |-> "400: Invalid method"]
        ELSE IF p.fields[2] = EmptyStr THEN [r |-> "panic"]
        ELSE IF p.fields[2][1] # "/" THEN [r |-> "err", e |-> "400: Invalid URL"]
        ELSE IF p.fields[3] # HTTP11 THEN [r |-> "err", e |-> "400: Invalid version"]
        ELSE [r |-> "ok",
              req |-> [ZeroRequest EXCEPT !.Method = p.fields[1],
                                          !.URL = p.fields[2],
                                          !.Proto = p.fields[3]]]

\* one pass of the header loop on a non-empty line read without error
HeaderLine(r, line) ==
    IF ~Contains(line, ":") THEN [r |-> "err", e |-> "400: Invalid header"]
    ELSE LET header    == Split(line, ":")
             headerKey == CanonicalHeaderKey(header[1])
             headerVal == TrimLeft(header[2], " ")
         IN  [r |-> "ok",
              req |-> [r EXCEPT !.Headers = (headerKey :> headerVal) @@ r.Headers]]

\* FinishRequest without the check for Host: the Go map read gives ""
FinishRequestNoHost(r) ==
    [r |-> "ok",
     req |-> [r EXCEPT !.Host = IF <<"Host">> \in DOMAIN r.Headers
                                THEN r.Headers[<<"Host">>] ELSE EmptyStr,
                       !.Close = /\ <<"Connection">> \in DOMAIN r.Headers
                                 /\ r.Headers[<<"Connection">>] = <<"close">>]]

\* readRequest after the header loop
FinishRequest(r) ==
    IF <<"Host">> \notin DOMAIN r.Headers THEN [r |-> "err", e |-> "400: Host Needed"]
    ELSE [r |-> "ok",
          req |-> [r EXCEPT !.Host = r.Headers[<<"Host">>],
                            !.Close = /\ <<"Connection">> \in DOMAIN r.Headers
                                      /\ r.Headers[<<"Connection">>] = <<"close">>]]

----------------------------------------------------------------------------
(* response.go *)

ZeroResponse ==
    [Proto |-> EmptyStr, StatusCode |-> 0, StatusText |-> EmptyStr,
     Headers |-> <<>>, Request |-> Nil, FilePath |-> EmptyStr]

\* init without the request's close flag
initNoClose(r, rq) ==
    [r EXCEPT !.Proto = responseProto,
              !.Headers = (<<"Date">> :> FormatTime("now")),
              !.Request = rq]

\* Response.init
init(r, rq) ==
    [r EXCEPT !.Proto = responseProto,
              !.Headers = IF rq # Nil /\ rq.Close
                          THEN (<<"Date">> :> FormatTime("now")) @@
                               (<<"Connection">> :> <<"close">>)
                          ELSE (<<"Date">> :> FormatTime("now")),
              !.Request = rq]

\* handleBadRequest without line 88, the header Connection: close
handleBadRequestNoClose(r, rq) ==
    LET i == init(r, rq)
    IN  [i EXCEPT !.StatusCode = statusBadRequest,
                  !.StatusText = statusText(statusBadRequest),
                  !.FilePath = EmptyStr]

handleBadRequest(r, rq) ==
    LET i == init(r, rq)
    IN  [i EXCEPT !.StatusCode = statusBadRequest,
                  !.StatusText = statusText(statusBadRequest),
                  !.Headers = (<<"Connection">> :> <<"close">>) @@ i.Headers,
                  !.FilePath = EmptyStr]

handleNotFound(r, rq) ==
    [init(r, rq) EXCEPT !.StatusCode = statusNotFound,
                        !.StatusText = statusText(statusNotFound),
                        !.FilePath = EmptyStr]

\* handleOK once its own os.Stat has returned a FileInfo
handleOK(r, rq, fi) ==
    LET i == init(r, rq)
    IN  [i EXCEPT !.StatusCode = statusOK,
                  !.StatusText = statusText(statusOK),
                  !.Headers = (<<"Last-Modified">> :> FormatTime("mtime")) @@
                              (<<"Content-Type">> :> MIMETypeByExtension(Ext(r.FilePath))) @@
                              (<<"Content-Length">> :> Sprint(fi.Size)) @@
                              i.Headers]

\* handleGoodRequest, line 49: the index document for a target ending in "/"
WithIndex(url) == IF url[Len(url)] = "/" THEN url \o <<"index.html">> ELSE url

\* Refused without the test for a leading ".."
RefusedOnErrOnly(docroot, path) == Rel(docroot, path).err

\* handleGoodRequest, lines 55-56: the candidate is refused
Refused(docroot, path) ==
    LET rel == Rel(docroot, path)
    IN  rel.err \/ HasPrefix(rel.rel, "..")

\* handleGoodRequest up to its call of handleOK: "notfound" with the 404
\* built, "ok" with FilePath set, "panic" where fi.IsDir() is called on the
\* nil FileInfo of a Stat that failed otherwise than with "does not exist"
handleGoodRequest(rq, fsys) ==
    LET url     == WithIndex(rq.URL)
        rq2     == [rq EXCEPT !.URL = url]
        docroot == VirtualHostOf(rq.Host)
        path    == Join(docroot, url)
        st      == Stat(fsys, path, 0)
    IN  IF Refused(docroot, path)
            THEN [r |-> "notfound", req |-> rq2, res |-> handleNotFound(ZeroResponse, rq2)]
        ELSE IF st.err = "notexist"
            THEN [r |-> "notfound", req |-> rq2, res |-> handleNotFound(ZeroResponse, rq2)]
        ELSE IF st.fi = Nil
            THEN [r |-> "panic", req |-> rq2, res |-> ZeroResponse]
        ELSE IF st.fi.IsDir
            THEN [r |-> "notfound", req |-> rq2, res |-> handleNotFound(ZeroResponse, rq2)]
        ELSE [r |-> "ok", req |-> rq2, res |-> [ZeroResponse EXCEPT !.FilePath = path]]

\* the header names of the responses, in the ascending byte order that
\* sort.Strings puts them in
HeaderOrder ==
    << <<"Connection">>, <<"Content-Length">>, <<"Content-Type">>, <<"Date">>,
       <<"Last-Modified">> >>

RECURSIVE SelectKeys(_, _)
SelectKeys(order, h) ==
    IF order = <<>> THEN <<>>
    ELSE IF order[1] \in DOMAIN h THEN <<order[1]>> \o SelectKeys(Tail(order), h)
    ELSE SelectKeys(Tail(order), h)

\* what one call of the writer puts on the wire, as chunks
writeStatusLine(r) ==
    << [t |-> "status", proto |-> r.Proto, code |-> r.StatusCode,
        text |-> statusText(r.StatusCode)] >>

\* writeHeaders without sort.Strings: the keys come in another order
writeHeadersUnsorted(r) ==
    LET keys == SelectKeys(HeaderOrder, r.Headers)
    IN  [i \in 1..Len(keys) |->
            [t |-> "header", k |-> keys[Len(keys) + 1 - i],
             v |-> r.Headers[keys[Len(keys) + 1 - i]]]]
        \o << [t |-> "blank"] >>

writeHeaders(r) ==
    LET keys == SelectKeys(HeaderOrder, r.Headers)
    IN  [i \in 1..Len(keys) |-> [t |-> "header", k |-> keys[i], v |-> r.Headers[keys[i]]]]
        \o << [t |-> "blank"] >>

BodyChunk(data) == IF data = <<>> THEN <<>> ELSE << [t |-> "body", data |-> data] >>

\* writeBody: [wire, err]; fail = "body" is a write that fails after the
\* first n bytes of the file
writeBody(r, fsys, fail, n) ==
    IF r.FilePath = EmptyStr THEN [wire |-> <<>>, err |-> FALSE]
    ELSE LET f == ReadFile(fsys, r.FilePath)
         IN  CASE f.r = "nofile" -> [wire |-> <<>>, err |-> FALSE]
               [] f.r = "readerr" -> [wire |-> <<>>, err |-> TRUE]
               [] f.r = "ok" ->
                     IF fail = "body"
                     THEN [wire |-> BodyChunk(SubSeq(f.data, 1, n)), err |-> TRUE]
                     ELSE [wire |-> BodyChunk(f.data), err |-> FALSE]

\* Response.Write: [wire, err]; fail names the step whose write fails
Write(r, fsys, fail, n) ==
    IF fail = "status" THEN [wire |-> <<>>, err |-> TRUE]
    ELSE IF fail = "headers" THEN [wire |-> writeStatusLine(r), err |-> TRUE]
    ELSE LET b == writeBody(r, fsys, fail, n)
         IN  [wire |-> writeStatusLine(r) \o writeHeaders(r) \o b.wire, err |-> b.err]

\* the write failures a response can meet
CanFail(r, fsys, fail, n) ==
    CASE fail \in {"none", "status", "headers"} -> n = 0
      [] fail = "body" -> /\ r.FilePath # EmptyStr
                          /\ ReadFile(fsys, r.FilePath).r = "ok"
                          /\ n < Len(ReadFile(fsys, r.FilePath).data)

WriteFailures == {"none", "status", "headers", "body"}

----------------------------------------------------------------------------
(* server.go: handleClientConnections *)

\* HandlerBranch without the test of the flag on a timeout
HandlerBranchNoFlag(e, nr) ==
    IF e = "EOF" THEN "close"
    ELSE IF e # "nil" THEN "bad"
    ELSE "good"

\* lines 69-97: what the worker does with the result of readRequest
HandlerBranch(e, nr) ==
    IF e = "EOF" THEN "close"
    ELSE IF e = "timeout" THEN (IF nr THEN "close" ELSE "bad")
    ELSE IF e # "nil" THEN "bad"
    ELSE "good"

\* lines 107-110
ClosesAfter(rq) == rq.Close

\* writeBody, line 175: whether this call of Write opens the file
Opens(r, fsys, fail) ==
    /\ fail \notin {"status", "headers"}
    /\ r.FilePath # EmptyStr
    /\ ReadFile(fsys, r.FilePath).r # "nofile"

VARIABLES
    pc,       \* where the worker is
    conn,     \* the stream: "open", "closed" by the worker, "dead" with the process
    req,      \* the request being read or served
    res,      \* the response being built
    err,      \* the error readRequest returned
    noReq,    \* the flag readRequest returned
    werr,     \* whether the last Write returned an error
    out,      \* the calls of Write so far, each with the chunks it put on the wire
    fs,       \* the file system
    nLines,   \* request lines delivered so far
    nParsed,  \* requests readRequest has returned so far
    panicAt,  \* the function that panicked, "none" while the server runs
    deadline, \* the read deadline of the stream: "none", "armed", or "stale"
              \* once a request has been read under it
    openFiles,\* files this worker has opened and not closed
    peer      \* the worker of another connection, started by ListenAndServe

vars == <<pc, conn, req, res, err, noReq, werr, out, fs, nLines, nParsed, panicAt,
          deadline, openFiles, peer>>

Init ==
    /\ pc = "loop"
    /\ conn = "open"
    /\ req = Nil
    /\ res = Nil
    /\ err = "nil"
    /\ noReq = FALSE
    /\ werr = FALSE
    /\ out = <<>>
    /\ fs = (IndexPath :> File(Data1, TRUE)) @@ (OutsidePath :> File(Data2, TRUE))
    /\ nLines = 0
    /\ nParsed = 0
    /\ panicAt = "none"
    /\ deadline = "none"
    /\ openFiles = 0
    /\ peer = "reading"

\* SetReadDeadline only before the first request of the connection
SetDeadlineOnce ==
    /\ pc = "loop"
    /\ \E ok \in BOOLEAN :
        IF ok THEN /\ pc' = "readFirst"
                   /\ conn' = conn
                   /\ deadline' = IF deadline = "none" THEN "armed" ELSE deadline
        ELSE /\ pc' = "done"
             /\ conn' = "closed"
             /\ deadline' = deadline
    /\ UNCHANGED <<req, res, err, noReq, werr, out, fs, nLines, nParsed, panicAt,
                   openFiles, peer>>

\* lines 59-63
SetDeadline ==
    /\ pc = "loop"
    /\ \E ok \in BOOLEAN :
        IF ok THEN /\ pc' = "readFirst"
                   /\ conn' = conn
                   /\ deadline' = "armed"
        ELSE /\ pc' = "done"
             /\ conn' = "closed"
             /\ deadline' = deadline
    /\ UNCHANGED <<req, res, err, noReq, werr, out, fs, nLines, nParsed, panicAt,
                   openFiles, peer>>

\* a panic ends the process: every stream it holds, every worker it runs
Panic(where) ==
    /\ pc' = "crashed"
    /\ conn' = "dead"
    /\ panicAt' = where
    /\ peer' = IF peer = "done" THEN peer ELSE "killed"

\* lines 69-97 once readRequest has failed with e and flag nr
Fail(e, nr) ==
    /\ err' = e
    /\ noReq' = nr
    /\ req' = Nil
    /\ pc' = "done"
    /\ conn' = "closed"
    /\ panicAt' = panicAt
    /\ peer' = peer
    /\ IF HandlerBranch(e, nr) = "bad"
       THEN \E fail \in WriteFailures \ {"body"} :
               LET r == handleBadRequest(ZeroResponse, Nil)
                   w == Write(r, fs, fail, 0)
               IN  /\ res' = r
                   /\ out' = Append(out, w.wire)
                   /\ werr' = w.err
       ELSE UNCHANGED <<res, out, werr>>

\* a read can time out only on a stream that has a deadline
CanTimeOut == deadline # "none"

\* readRequest, lines 33-58: the request line
ReadFirstLine ==
    /\ pc = "readFirst"
    /\ \/ Fail("EOF", TRUE) /\ UNCHANGED nLines
       \/ CanTimeOut /\ Fail("timeout", TRUE) /\ UNCHANGED nLines
       \/ /\ nLines < MaxReq
          /\ nLines' = nLines + 1
          /\ \E line \in Lines :
                LET s == StartRequest(line)
                IN  CASE s.r = "err" -> Fail(s.e, FALSE)
                      [] s.r = "panic" ->
                            /\ Panic("readRequest")
                            /\ UNCHANGED <<req, res, err, noReq, werr, out>>
                      [] s.r = "ok" ->
                            /\ req' = s.req
                            /\ pc' = "readHdr"
                            /\ UNCHANGED <<conn, res, err, noReq, werr, out, panicAt, peer>>
    /\ UNCHANGED <<fs, nParsed, deadline, openFiles>>

\* readRequest, lines 73-81: the header loop's body on one line that is not empty
ReadHeader(line) ==
    /\ pc = "readHdr"
    /\ LET h == HeaderLine(req, line)
       IN  IF h.r = "err" THEN Fail(h.e, FALSE)
           ELSE /\ req' = h.req
                /\ UNCHANGED <<pc, conn, res, err, noReq, werr, out, panicAt, peer>>
    /\ UNCHANGED <<fs, nLines, nParsed, deadline, openFiles>>

\* readRequest, lines 62-103: one line of the header block
ReadHeaderLine ==
    /\ pc = "readHdr"
    /\ \/ Fail("EOF", FALSE) /\ UNCHANGED <<nParsed, deadline>>
       \/ CanTimeOut /\ Fail("timeout", FALSE) /\ UNCHANGED <<nParsed, deadline>>
       \/ \E line \in Lines \ {EmptyStr} : ReadHeader(line)
       \/ LET f == FinishRequest(req)
          IN  IF f.r = "err" THEN Fail(f.e, FALSE) /\ UNCHANGED <<nParsed, deadline>>
              ELSE /\ req' = f.req
                   /\ err' = "nil"
                   /\ noReq' = FALSE
                   /\ pc' = "resolve"
                   /\ nParsed' = nParsed + 1
                   /\ deadline' = "stale"
                   /\ UNCHANGED <<conn, res, werr, out, panicAt, peer>>
    /\ UNCHANGED <<fs, nLines, openFiles>>

\* line 101 down to the call of handleOK
Resolve1 ==
    /\ pc = "resolve"
    /\ LET g == handleGoodRequest(req, fs)
       IN  CASE g.r = "panic" ->
                 /\ Panic("handleGoodRequest")
                 /\ UNCHANGED <<req, res>>
             [] g.r = "notfound" ->
                 /\ req' = g.req
                 /\ res' = g.res
                 /\ pc' = "write"
                 /\ UNCHANGED <<conn, panicAt, peer>>
             [] g.r = "ok" ->
                 /\ req' = g.req
                 /\ res' = g.res
                 /\ pc' = "handleOK"
                 /\ UNCHANGED <<conn, panicAt, peer>>
    /\ UNCHANGED <<err, noReq, werr, out, fs, nLines, nParsed, deadline, openFiles>>

\* handleOK, with its own os.Stat of the file
HandleOK ==
    /\ pc = "handleOK"
    /\ \E d \in DirSizes :
          LET st == Stat(fs, res.FilePath, d)
          IN  IF st.fi = Nil
              THEN /\ Panic("handleOK")
                   /\ UNCHANGED res
              ELSE /\ res' = handleOK(res, req, st.fi)
                   /\ pc' = "write"
                   /\ UNCHANGED <<conn, panicAt, peer>>
    /\ UNCHANGED <<req, err, noReq, werr, out, fs, nLines, nParsed, deadline, openFiles>>

\* lines 102-110
WriteResponse ==
    /\ pc = "write"
    /\ \E fail \in WriteFailures, n \in 0..Len(Data2) :
          /\ CanFail(res, fs, fail, n)
          /\ LET w == Write(res, fs, fail, n)
             IN  /\ out' = Append(out, w.wire)
                 /\ werr' = w.err
          /\ openFiles' = IF Opens(res, fs, fail) THEN openFiles + 1 ELSE openFiles
    /\ IF ClosesAfter(req)
       THEN /\ pc' = "done"
            /\ conn' = "closed"
            /\ UNCHANGED <<req, res>>
       ELSE /\ pc' = "loop"
            /\ conn' = conn
            /\ req' = Nil
            /\ res' = Nil
    /\ UNCHANGED <<err, noReq, fs, nLines, nParsed, panicAt, deadline, peer>>

\* another process changes a file of the docRoot.  The worker looks at the
\* file system only between readRequest's return and the end of Write, so a
\* change made while it reads a request is taken here, when it is first seen
FsChange ==
    /\ pc \in {"resolve", "handleOK", "write"}
    /\ \E p \in ServedPaths, st \in FileStates :
          /\ st # fs[p]
          /\ fs' = [fs EXCEPT ![p] = st]
    /\ UNCHANGED <<pc, conn, req, res, err, noReq, werr, out, nLines, nParsed, panicAt,
                   deadline, openFiles, peer>>

Next ==
    \/ SetDeadline
    \/ ReadFirstLine
    \/ ReadHeaderLine
    \/ Resolve1
    \/ HandleOK
    \/ WriteResponse
    \/ FsChange

Spec == Init /\ [][Next]_vars

\* ListenAndServe, line 48: the worker of another connection runs the same
\* loop in its own goroutine; here it reads a request its client sends
PeerRead ==
    /\ peer = "reading"
    /\ peer' = "serving"
    /\ UNCHANGED <<pc, conn, req, res, err, noReq, werr, out, fs, nLines, nParsed,
                   panicAt, deadline, openFiles>>

\* and here it writes the response, then goes on or closes
PeerWrite ==
    /\ peer = "serving"
    /\ peer' \in {"reading", "done"}
    /\ UNCHANGED <<pc, conn, req, res, err, noReq, werr, out, fs, nLines, nParsed,
                   panicAt, deadline, openFiles>>

NextServer ==
    \/ SetDeadline
    \/ ReadFirstLine
    \/ ReadHeaderLine
    \/ Resolve1
    \/ HandleOK
    \/ WriteResponse
    \/ FsChange
    \/ PeerRead
    \/ PeerWrite

\* the server with two connections accepted
SpecServer == Init /\ [][NextServer]_vars

----------------------------------------------------------------------------
(* the wire, as the client sees it *)

Last(w) == w[Len(w)]

Reading == {"readFirst", "readHdr"}

Serving == {"resolve", "handleOK", "write"}

\* the request carries Connection: close
AsksClose(rq) ==
    /\ <<"Connection">> \in DOMAIN rq.Headers
    /\ rq.Headers[<<"Connection">>] = <<"close">>

StatusOnWire(w) == IF w # <<>> /\ w[1].t = "status" THEN w[1].code ELSE 0

HeaderOnWire(w, k, v) ==
    \E i \in 1..Len(w) : w[i].t = "header" /\ w[i].k = k /\ w[i].v = v

HasHeaderOnWire(w, k) == \E i \in 1..Len(w) : w[i].t = "header" /\ w[i].k = k

HeadersEnded(w) == \E i \in 1..Len(w) : w[i].t = "blank"

BodyOnWire(w) ==
    IF \E i \in 1..Len(w) : w[i].t = "body"
    THEN w[CHOOSE i \in 1..Len(w) : w[i].t = "body"].data
    ELSE <<>>

\* a whole response: status line, header block, and as many body bytes as
\* its Content-Length announces (none without one)
Whole(w) ==
    /\ StatusOnWire(w) \in {statusOK, statusBadRequest, statusNotFound}
    /\ HeadersEnded(w)
    /\ IF HasHeaderOnWire(w, <<"Content-Length">>)
       THEN HeaderOnWire(w, <<"Content-Length">>, Sprint(Len(BodyOnWire(w))))
       ELSE BodyOnWire(w) = <<>>

\* the elements of x begin the elements of y
IsPrefix(x, y) == Len(x) <= Len(y) /\ SubSeq(y, 1, Len(x)) = x

\* path lies in directory base
Inside(base, path) == IsPrefix(CleanElems(base), CleanElems(path))

\* once the stream is closed the worker reads, parses and writes nothing
NothingAfterClose ==
    conn # "open" => /\ nLines' = nLines
                     /\ nParsed' = nParsed
                     /\ out' = out
                     /\ pc' = pc

----------------------------------------------------------------------------
(* C1 *)

\* C1: a request that parses and does not carry Connection: close gets its
\* response (200 or 404) written, and the worker returns to awaiting the next
\* request with the stream still open.
C1_PersistentByDefault ==
    [][ (pc \in Serving /\ ~AsksClose(req)) =>
            /\ conn' = "open"
            /\ pc' \in Serving \cup {"loop"}
            /\ pc' = "loop" =>
                  /\ Len(out') = Len(out) + 1
                  /\ res.StatusCode \in {statusOK, statusNotFound} ]_vars

(* C2 *)

\* C2: the response written for a parsed request carrying Connection: close
\* is a 200 or a 404 with the header Connection: close; the stream is closed
\* right after it, and no further request is read.
C2_CloseHonoured ==
    [][ /\ (pc = "write" /\ AsksClose(req) /\ out' # out) =>
              /\ res.StatusCode \in {statusOK, statusNotFound}
              /\ <<"Connection">> \in DOMAIN res.Headers
              /\ res.Headers[<<"Connection">>] = <<"close">>
              /\ HeadersEnded(Last(out')) =>
                    HeaderOnWire(Last(out'), <<"Connection">>, <<"close">>)
              /\ conn' = "closed"
              /\ pc' = "done"
        /\ NothingAfterClose ]_vars

C2_Witness ==
    /\ pc = "done"
    /\ conn = "closed"
    /\ req # Nil
    /\ AsksClose(req)
    /\ out # <<>>
    /\ StatusOnWire(Last(out)) = statusOK
    /\ HeaderOnWire(Last(out), <<"Connection">>, <<"close">>)

(* C3 *)

\* C3: when the parse of a request fails otherwise than by end-of-stream or
\* deadline expiry with nothing of it read, the worker writes exactly one
\* response, a 400 with Connection: close and no body, closes the stream and
\* reads no other request.
C3_ParseFailure400 ==
    [][ /\ ( /\ pc \in Reading
             /\ pc' \notin Reading \cup {"resolve"}
             /\ ~(pc = "readFirst" /\ nLines' = nLines) ) =>
              /\ pc' = "done"
              /\ conn' = "closed"
              /\ Len(out') = Len(out) + 1
              /\ res'.StatusCode = statusBadRequest
              /\ ~werr' =>
                    /\ StatusOnWire(Last(out')) = statusBadRequest
                    /\ HeaderOnWire(Last(out'), <<"Connection">>, <<"close">>)
                    /\ Whole(Last(out'))
                    /\ BodyOnWire(Last(out')) = <<>>
        /\ NothingAfterClose ]_vars

(* C4 *)

\* C4: when the read of the next request ends by end-of-stream or deadline
\* expiry with no byte of it read, on the first or a later request, the
\* worker closes the stream and writes nothing.
C4_SilentClose ==
    [][ (pc = "readFirst" /\ pc' # "readFirst" /\ nLines' = nLines) =>
            /\ out' = out
            /\ conn' = "closed"
            /\ pc' = "done" ]_vars

C4_Witness ==
    /\ pc = "done"
    /\ err = "timeout"
    /\ noReq
    /\ conn = "closed"
    /\ Len(out) = 1
    /\ StatusOnWire(out[1]) = statusOK

(* C5 *)

\* C5: handleGoodRequest serves a file (200) only if the host is in the
\* virtual-host map and the candidate path, the docRoot joined with the
\* target, lies inside that docRoot; a target that leaves the docRoot and a
\* host absent from the map get 404.
C5_NoEscape ==
    pc \in {"handleOK", "write"} =>
        LET known == req.Host \in DOMAIN VirtualHosts
            cand  == Join(VirtualHostOf(req.Host), req.URL)
        IN  /\ (res.FilePath # EmptyStr \/ res.StatusCode = statusOK) =>
                  /\ known
                  /\ res.FilePath = cand
                  /\ Inside(VirtualHosts[req.Host], cand)
            /\ (~known \/ ~Inside(VirtualHostOf(req.Host), cand)) =>
                  /\ pc = "write"
                  /\ res.StatusCode = statusNotFound

C5_Witness ==
    /\ pc = "write"
    /\ req.Host = <<"h1">>
    /\ req.URL = <<"/", "..", "/", "etc">>
    /\ EntryAt(fs, OutsidePath).kind = "file"
    /\ res.StatusCode = statusNotFound

(* C6 *)

\* C6: whatever the lookup of the candidate path gives (file, directory,
\* absent, any other error), handleGoodRequest returns a response of status
\* 200 or 404, and 200 only for an existing path that is no directory.
C6_ResolutionTotal ==
    [][ (pc \in {"resolve", "handleOK"} /\ pc' \notin {"resolve", "handleOK"}) =>
            /\ pc' = "write"
            /\ res'.StatusCode \in {statusOK, statusNotFound}
            /\ res'.StatusCode = statusOK =>
                  EntryAt(fs, res'.FilePath).kind = "file" ]_vars

(* C7 *)

\* C7: on every request line readRequest goes on to a Request or fails with
\* a BadRequest error; a GET line whose target does not begin with "/", the
\* empty target included, fails with BadRequest.
C7_ParsingTotal ==
    [][ (pc = "readFirst" /\ nLines' = nLines + 1) =>
            \/ pc' = "readHdr" /\ req' # Nil /\ HasPrefix(req'.URL, "/")
            \/ pc' = "done" /\ HandlerBranch(err', noReq') = "bad" ]_vars

(* C8 *)

\* C8: a request that reaches handleGoodRequest has method GET, a target
\* beginning with "/", version HTTP/1.1 and a Host header; a header block
\* that ends without Host is answered with 400, the stream is closed and no
\* later request is processed.
C8_ValidRequest ==
    [][ /\ pc' \in Serving =>
              /\ req'.Method = GET
              /\ HasPrefix(req'.URL, "/")
              /\ req'.Proto = HTTP11
              /\ <<"Host">> \in DOMAIN req'.Headers
              /\ req'.Host = req'.Headers[<<"Host">>]
        /\ (pc = "readHdr" /\ err' = "400: Host Needed") =>
              /\ <<"Host">> \notin DOMAIN req.Headers
              /\ pc' = "done"
              /\ conn' = "closed"
              /\ Len(out') = Len(out) + 1
              /\ res'.StatusCode = statusBadRequest
              /\ ~werr' => StatusOnWire(Last(out')) = statusBadRequest
        /\ NothingAfterClose ]_vars

C8_Witness ==
    /\ pc = "done"
    /\ err = "400: Host Needed"
    /\ conn = "closed"
    /\ nParsed = 1
    /\ Len(out) = 2
    /\ StatusOnWire(out[2]) = statusBadRequest

(* C9 *)

\* C9: for every 200 response written, whatever the file system holds when
\* it is written, the bytes after the blank line are the file's contents and
\* their number is the value of its Content-Length header.
C9_BodyMatchesLength ==
    [][ (pc = "write" /\ res.StatusCode = statusOK /\ out' # out /\ ~werr') =>
            /\ HeaderOnWire(Last(out'), <<"Content-Length">>,
                            Sprint(Len(BodyOnWire(Last(out')))))
            /\ EntryAt(fs, res.FilePath).kind = "file" =>
                  BodyOnWire(Last(out')) = EntryAt(fs, res.FilePath).data ]_vars

(* C10 *)

\* C10: the response to a request is wholly written before any byte of the
\* next request is parsed, and each fully read request gets exactly one
\* response.
C10_Sequential ==
    [][ /\ nLines' = nLines + 1 =>
              /\ Len(out) = nParsed
              /\ \A i \in 1..Len(out) : Whole(out[i])
        /\ pc' \in {"done", "crashed"} => nParsed' <= Len(out') ]_vars

----------------------------------------------------------------------------
(* C11 *)

\* C11: connections are isolated: no step of this connection's worker,
\* whatever its client sends and whatever its transport does, ends the
\* process or changes what the worker of another connection is doing.
C11_Isolated ==
    [][ Next => (peer' = peer /\ conn' # "dead") ]_vars

----------------------------------------------------------------------------
(* C12 *)

\* the header lines that hold a colon
ColonLines == { l \in HeaderLines : Contains(l, ":") }

FirstColon(l) ==
    CHOOSE i \in 1..Len(l) : l[i] = ":" /\ \A j \in 1..(i - 1) : l[j] # ":"

\* the canonical name: what stands before the first colon
NameOf(l) == CanonicalHeaderKey(SubSeq(l, 1, FirstColon(l) - 1))

\* the value: all that follows the first colon, less its leading spaces
ValueOf(l) == TrimLeft(SubSeq(l, FirstColon(l) + 1, Len(l)), " ")

\* C12: whenever readRequest reads a header line that holds a colon, the
\* header map afterwards holds, under the canonical form of what precedes
\* the first colon, the whole rest of the line less its leading spaces, in
\* place of any earlier value of that name, and is otherwise unchanged.
C12_FirstColonSplit ==
    [][ \A l \in ColonLines :
            ReadHeader(l) => req'.Headers = (NameOf(l) :> ValueOf(l)) @@ req.Headers ]_vars

----------------------------------------------------------------------------
(* C13 *)

\* C13: when the stream ends after the request line has been read and before
\* the empty line that ends the header block, the handler writes a 400
\* response and then closes the stream.
C13_PartialEOF400 ==
    [][ (pc = "readHdr" /\ err' = "EOF") =>
            /\ Len(out') = Len(out) + 1
            /\ res' # Nil
            /\ res'.StatusCode = statusBadRequest
            /\ conn' = "closed"
            /\ pc' = "done" ]_vars

----------------------------------------------------------------------------
(* C14 *)

\* C14: every read of a request runs under a deadline armed for it; when
\* the deadline expires after the request line has been read and before
\* the header block has ended, the handler writes a 400 response with
\* Connection: close and then closes the stream.
C14_Deadline ==
    [][ /\ pc' \in Reading => deadline' = "armed"
        /\ (pc = "readHdr" /\ err' = "timeout") =>
              /\ ~noReq'
              /\ Len(out') = Len(out) + 1
              /\ res'.StatusCode = statusBadRequest
              /\ <<"Connection">> \in DOMAIN res'.Headers
              /\ res'.Headers[<<"Connection">>] = <<"close">>
              /\ HeadersEnded(Last(out')) =>
                    /\ StatusOnWire(Last(out')) = statusBadRequest
                    /\ HeaderOnWire(Last(out'), <<"Connection">>, <<"close">>)
              /\ conn' = "closed"
              /\ pc' = "done" ]_vars

\* the deadline of the second request expired in its header block
C14_Witness ==
    /\ pc = "done"
    /\ conn = "closed"
    /\ err = "timeout"
    /\ ~noReq
    /\ nParsed = 1
    /\ deadline = "armed"
    /\ Len(out) = 2
    /\ StatusOnWire(out[2]) = statusBadRequest
    /\ HeaderOnWire(out[2], <<"Connection">>, <<"close">>)

----------------------------------------------------------------------------
(* C15 *)

\* C15: when the Write of the response to a parsed request returns an error,
\* the worker closes the stream and ends, whether or not the request asked
\* for close; it reads no further request.
C15_AbandonOnWriteError ==
    [][ (pc = "write" /\ out' # out /\ werr') => (conn' = "closed" /\ pc' = "done") ]_vars

----------------------------------------------------------------------------
(* C16 *)

\* C16: once a response has been written no file opened for its body is
\* still open, and when the worker has returned its stream is closed and
\* it holds no open file.
C16_Released ==
    /\ pc \in {"loop", "readFirst", "readHdr", "done"} => openFiles = 0
    /\ pc = "done" => conn = "closed"

----------------------------------------------------------------------------
(* C17 *)

HasClose(r) ==
    /\ <<"Connection">> \in DOMAIN r.Headers
    /\ r.Headers[<<"Connection">>] = <<"close">>

\* C17: every response the handler writes carries Connection: close exactly
\* when the step that writes it closes the stream and ends the worker: a
\* 400 always does, a 200 or a 404 exactly when the close flag of the
\* request it answers is set.
C17_CloseHeaderIffCloses ==
    [][ Len(out') = Len(out) + 1 =>
          LET r == IF pc = "write" THEN res ELSE res'
          IN  /\ HasClose(r) <=> (conn' = "closed" /\ pc' = "done")
              /\ HeadersEnded(Last(out')) =>
                    (HasHeaderOnWire(Last(out'), <<"Connection">>) <=> HasClose(r))
              /\ HasHeaderOnWire(Last(out'), <<"Connection">>) =>
                    HeaderOnWire(Last(out'), <<"Connection">>, <<"close">>)
              /\ r.StatusCode \in {statusOK, statusBadRequest, statusNotFound}
              /\ r.StatusCode = statusBadRequest => HasClose(r)
              /\ r.StatusCode # statusBadRequest => (HasClose(r) <=> req.Close) ]_vars

\* a response without the header, after which the worker read on, then a
\* 400 with it, after which the stream is closed
C17_Witness ==
    /\ Len(out) = 2
    /\ HeadersEnded(out[1])
    /\ ~HasHeaderOnWire(out[1], <<"Connection">>)
    /\ StatusOnWire(out[2]) = statusBadRequest
    /\ HeaderOnWire(out[2], <<"Connection">>, <<"close">>)
    /\ conn = "closed"
    /\ pc = "done"

----------------------------------------------------------------------------
(* C18 *)

ConnectionLines == { l \in ColonLines : NameOf(l) = <<"Connection">> }

\* C18: the close flag of a parsed request is true exactly when its last
\* Connection header line has, after its first colon and less the leading
\* spaces, the text "close": each Connection line read replaces the stored
\* value with that text, and the flag of the finished request is whether
\* the stored value is "close" (false when there is none).
C18_CloseFlag ==
    [][ /\ \A l \in ConnectionLines :
              ReadHeader(l) => /\ <<"Connection">> \in DOMAIN req'.Headers
                               /\ req'.Headers[<<"Connection">>] = ValueOf(l)
        /\ (pc = "readHdr" /\ pc' = "resolve") =>
              /\ req'.Headers = req.Headers
              /\ req'.Close <=> AsksClose(req) ]_vars

----------------------------------------------------------------------------
(* C19 *)

Rank(t) ==
    CASE t = "status" -> 1
      [] t = "header" -> 2
      [] t = "blank" -> 3
      [] t = "body" -> 4

\* the place of a key in the ascending order of the keys
KeyPos(k) == CHOOSE i \in 1..Len(HeaderOrder) : HeaderOrder[i] = k

\* the status line, then headers in strictly ascending key order, then the
\* blank line, then the body, none of them twice
InOrder(w) ==
    \A i, j \in 1..Len(w) :
        i < j => \/ Rank(w[i].t) < Rank(w[j].t)
                 \/ /\ w[i].t = "header"
                    /\ w[j].t = "header"
                    /\ KeyPos(w[i].k) < KeyPos(w[j].k)

----------------------------------------------------------------------------
(* C20 *)

\* a step of the worker
WorkerStep ==
    \/ SetDeadline
    \/ ReadFirstLine
    \/ ReadHeaderLine
    \/ Resolve1
    \/ HandleOK
    \/ WriteResponse

\* C20: the worker always ends in Closing: until it has closed the stream
\* and returned, a step of the worker is possible without any further line
\* from the client (a read returns with the end of the stream or with the
\* deadline's timeout, a lookup and a write return), and once it has closed
\* the stream and returned no step of it is possible, so that it reads and
\* writes nothing more.
C20_Terminates ==
    IF ENABLED WorkerStep
    THEN pc \notin {"done", "crashed"} /\ conn = "open"
    ELSE pc = "done" /\ conn = "closed"

====
